---- MODULE Spec2Model ----
(***************************************************************************)
(* Banking transaction analysis: the Spark analyzer (banking_analysis.py)  *)
(* and the two data generators (generate_sample_data.py,                   *)
(* transaction_generator.py).                                              *)
(*                                                                         *)
(* A CSV file and a DataFrame are bags of rows: a DataFrame has no row     *)
(* order, and no aggregation of the analyzer reads one.  A CSV field is a  *)
(* string; the empty field is what spark.read.csv loads as null.           *)
(***************************************************************************)
EXTENDS Bags, FiniteSets, Integers, Sequences, TLC

\* ------------------------------------------------------------------ bounds
\* Rows of transactions.csv in the runs of main() with faults, and in the
\* runs that check the per-user and per-merchant views.
MaxRows == 4
\* Rows of transactions.csv in the runs that check the top-5 view (more
\* merchants than the limit are needed).
MaxTopRows == 7
\* The largest record count asked of a generator.
MaxGen == 2
\* The identifiers uuid4() draws from.
NumUuids == 3

\* ------------------------------------------------------------- input values
NULL == ""

Row(u, m, a, s) ==
    [user_id |-> u, merchant_id |-> m, transaction_amount |-> a, status |-> s]

\* The statuses generate_sample_transactions writes.
statuses == {"SUCCESS", "FAILED", "PENDING"}

\* The rows of the concrete scenario: two users, two merchants, one failure.
SampleRows ==
    { Row("U1", "M1", "100", "SUCCESS"), Row("U1", "M1", "50", "FAILED"),
      Row("U2", "M2", "300", "SUCCESS") }

\* Rows for the per-merchant view: every status for no merchant and for two
\* merchants, and rows without a merchant that differ in the other columns.
MerchantRows ==
    { Row("U1", m, "50", s) : m \in {NULL, "M1", "M2"}, s \in statuses }
    \cup { Row(NULL, NULL, NULL, s) : s \in statuses }

\* Rows for the per-user view: every combination of a missing or present
\* user_id and amount, and a row that differs in merchant and status only.
UserRows ==
    { Row(u, "M1", a, "SUCCESS") : u \in {NULL, "U1", "U2"}, a \in {NULL, "50", "100"} }
    \cup { Row("U1", NULL, "50", "FAILED"), Row(NULL, NULL, NULL, "FAILED") }

ViewRows == MerchantRows \cup UserRows

\* Rows for the top-5 view: six merchants, one more than the limit.
TopRows ==
    { Row("U1", m, "50", "SUCCESS") : m \in {NULL, "M1", "M2", "M3", "M4", "M5", "M6"} }

\* ------------------------------------------------------------------ helpers
RECURSIVE SumOver(_, _)
SumOver(S, w) ==
    IF S = {} THEN 0
    ELSE LET x == CHOOSE y \in S : TRUE IN w[x] + SumOver(S \ {x}, w)

RECURSIVE Gcd(_, _)
Gcd(a, b) == IF b = 0 THEN a ELSE Gcd(b, a % b)

\* n / d as a double is modelled by the fraction in lowest terms.
Divide(n, d) == LET g == Gcd(n, d) IN <<n \div g, d \div g>>

\* inferSchema: the numeric value of an amount field.
ParseAmount(a) ==
    CASE a = "50" -> 50 [] a = "100" -> 100 [] a = "200" -> 200 [] a = "300" -> 300

\* df.filter(cond): cond is a boolean column, a value for each row of df.
Filter(df, cond) == [r \in {x \in DOMAIN df : cond[x]} |-> df[r]]

\* df.count()
Count(df) == BagCardinality(df)

\* col(c).isNotNull()
isNotNull(v) == v # NULL

\* ------------------------------------------------------------------- views
\* Mutant: the filter forgets user_id.
AvgTxnFilterAmountOnly(r) == isNotNull(r.transaction_amount)

\* Step 2: filter(amount and user_id not null).groupBy(user_id).agg(avg)
AvgTxnFilter(r) == isNotNull(r.transaction_amount) /\ isNotNull(r.user_id)

AvgTransactionPerUser(df) ==
    LET kept == Filter(df, [r \in DOMAIN df |-> AvgTxnFilter(r)])
        keys == {r.user_id : r \in DOMAIN kept}
        grp(u) == Filter(kept, [r \in DOMAIN kept |-> r.user_id = u])
        total(u) == SumOver(DOMAIN grp(u),
                            [r \in DOMAIN grp(u) |-> grp(u)[r] * ParseAmount(r.transaction_amount)])
    IN  { [user_id |-> u, avg_transaction |-> Divide(total(u), Count(grp(u)))] : u \in keys }

\* Mutant: no filter on merchant_id before the grouping.
TotalFilterNone(r) == TRUE

\* Step 3: total = filter(merchant_id not null).groupBy(merchant_id).count
TotalFilter(r) == isNotNull(r.merchant_id)

TotalTxns(df) ==
    LET kept == Filter(df, [r \in DOMAIN df |-> TotalFilter(r)])
    IN  [m \in {r.merchant_id : r \in DOMAIN kept} |->
            Count(Filter(kept, [r \in DOMAIN kept |-> r.merchant_id = m]))]

\* Mutant: every status but SUCCESS counts as a failure.
FailedFilterNotSuccess(r) == r.status # "SUCCESS" /\ isNotNull(r.merchant_id)

\* failed = filter(status == FAILED and merchant_id not null).groupBy.count
FailedFilter(r) == r.status = "FAILED" /\ isNotNull(r.merchant_id)

FailedTxns(df) ==
    LET kept == Filter(df, [r \in DOMAIN df |-> FailedFilter(r)])
    IN  [m \in {r.merchant_id : r \in DOMAIN kept} |->
            Count(Filter(kept, [r \in DOMAIN kept |-> r.merchant_id = m]))]

\* total.join(failed, "merchant_id", "left").fillna(0, ["failed_txns"])
LeftJoinFill(total, failed) ==
    { [merchant_id |-> m, total_txns |-> total[m],
       failed_txns |-> IF m \in DOMAIN failed THEN failed[m] ELSE 0] : m \in DOMAIN total }

\* when(total_txns > 0, failed_txns / total_txns).otherwise(0.0)
RateOf(failed_txns, total_txns) ==
    IF total_txns > 0 THEN Divide(failed_txns, total_txns) ELSE <<0, 1>>

FailureRatePerMerchant(df) ==
    { [merchant_id |-> j.merchant_id, total_txns |-> j.total_txns,
       failed_txns |-> j.failed_txns,
       failure_rate |-> RateOf(j.failed_txns, j.total_txns)] :
        j \in LeftJoinFill(TotalTxns(df), FailedTxns(df)) }

\* Step 4: filter(merchant_id not null).groupBy.count.orderBy(desc).limit(5)
TxnCounts(df) ==
    LET kept == Filter(df, [r \in DOMAIN df |-> TotalFilter(r)])
    IN  { [merchant_id |-> m,
           txn_count |-> Count(Filter(kept, [r \in DOMAIN kept |-> r.merchant_id = m]))] :
            m \in {r.merchant_id : r \in DOMAIN kept} }

\* Mutant: orderBy without .desc(), the smallest count first.
RECURSIVE OrderByAsc(_)
OrderByAsc(G) ==
    IF G = {} THEN {<<>>}
    ELSE LET low == {g \in G : \A h \in G : g.txn_count <= h.txn_count}
         IN  UNION { { <<g>> \o t : t \in OrderByAsc(G \ {g}) } : g \in low }

\* orderBy(col("txn_count").desc()): every order of the rows that is
\* non-increasing in txn_count; Spark leaves the order of equal counts open.
RECURSIVE OrderByDesc(_)
OrderByDesc(G) ==
    IF G = {} THEN {<<>>}
    ELSE LET top == {g \in G : \A h \in G : h.txn_count <= g.txn_count}
         IN  UNION { { <<g>> \o t : t \in OrderByDesc(G \ {g}) } : g \in top }

\* limit(n)
Limit(s, n) == SubSeq(s, 1, IF Len(s) < n THEN Len(s) ELSE n)

TopK == 5

TopMerchantsResults(df) == { Limit(s, TopK) : s \in OrderByDesc(TxnCounts(df)) }

\* ------------------------------------------------------------------- state
VARIABLES
    file_exists,    \* transactions.csv exists beside the script
    file_rows,      \* its data rows (a bag), the header aside
    pc,             \* where main() of banking_analysis.py stands
    spark,          \* the session: "none", "active", "stopped"
    stop_calls,     \* calls of spark.stop()
    df,             \* the loaded DataFrame
    built,          \* the views defined so far
    avg_txn, failure_rate, top_merchants,
    shown,          \* the views displayed, in order
    dir_created,    \* analysis_results/ was created
    attempted,      \* the output files whose to_csv was called
    results,        \* the output files written: name -> content
    save_failed_at, \* the step of the save phase that raised, or "none"
    error,          \* the exception caught by the outer handler, or "none"
    outcome,        \* how main() ended: "running", "returned", "raised"
    \* generate_sample_data.generate_sample_transactions
    s_pc,           \* "idle", "writing" (the file is open), "done"
    s_n,            \* num_records of the call
    s_i,            \* the loop index
    s_outcome,      \* "none", "ok" (returned normally), "error"
    \* transaction_generator
    used_transaction_ids,
    transactions,   \* the list generate_transactions is building
    produced,       \* every record this TransactionGenerator has produced
    collided,       \* uuid4() has returned an identifier already issued
    g_pc,           \* "idle", "prompt", "loop", "save_csv", "save_json", "summary"
    g_entry,        \* who called generate_transactions: "api" or "main"
    g_n,            \* n of the call
    rejected,       \* inputs validate_input has turned down
    opened,         \* output files transaction_generator has opened for writing
    g_outcome       \* "none", "returned", "no_transactions", "exit0", "exit1"

vars == <<file_exists, file_rows, pc, spark, stop_calls, df, built, avg_txn,
          failure_rate, top_merchants, shown, dir_created, attempted, results,
          save_failed_at, error, outcome, s_pc, s_n, s_i, s_outcome,
          used_transaction_ids, transactions, produced, collided, g_pc,
          g_entry, g_n, rejected, opened, g_outcome>>

input == <<file_exists, file_rows>>
views == <<built, avg_txn, failure_rate, top_merchants>>
saved == <<dir_created, attempted, results, save_failed_at>>
analyzer == <<pc, spark, stop_calls, df, views, shown, saved, error, outcome>>
sample == <<s_pc, s_n, s_i, s_outcome>>
gen == <<used_transaction_ids, transactions, produced, collided, g_pc, g_entry,
         g_n, rejected, opened, g_outcome>>

AVG_CSV == "avg_transaction_per_user.csv"
FAILURE_CSV == "failure_rate_per_merchant.csv"
TOP_CSV == "top_5_merchants.csv"
OutputFiles == {AVG_CSV, FAILURE_CSV, TOP_CSV}

Init ==
    /\ file_exists = FALSE
    /\ file_rows = EmptyBag
    /\ pc = "idle"
    /\ spark = "none"
    /\ stop_calls = 0
    /\ df = EmptyBag
    /\ built = {}
    /\ avg_txn = {}
    /\ failure_rate = {}
    /\ top_merchants = <<>>
    /\ shown = <<>>
    /\ dir_created = FALSE
    /\ attempted = {}
    /\ results = <<>>
    /\ save_failed_at = "none"
    /\ error = "none"
    /\ outcome = "running"
    /\ s_pc = "idle"
    /\ s_n = 0
    /\ s_i = 0
    /\ s_outcome = "none"
    /\ used_transaction_ids = {}
    /\ transactions = <<>>
    /\ produced = <<>>
    /\ collided = FALSE
    /\ g_pc = "idle"
    /\ g_entry = "api"
    /\ g_n = 0
    /\ rejected = {}
    /\ opened = {}
    /\ g_outcome = "none"

\* ------------------------------------------------------- the input file
\* Somebody creates transactions.csv with its header row.
CreateFile ==
    /\ pc = "idle" /\ ~file_exists
    /\ file_exists' = TRUE
    /\ UNCHANGED <<file_rows, pc, spark, stop_calls, df, views, shown, saved, error, outcome, sample, gen>>

\* Somebody appends a data row to transactions.csv.
WriteRow(pool, max) ==
    /\ pc = "idle" /\ file_exists
    /\ BagCardinality(file_rows) < max
    /\ \E r \in pool : file_rows' = file_rows (+) SetToBag({r})
    /\ UNCHANGED <<file_exists, pc, spark, stop_calls, df, views, shown, saved, error, outcome, sample, gen>>

\* ------------------------------------------------- banking_analysis.main
\* SparkSession.builder...getOrCreate()
CreateSession ==
    /\ pc = "idle"
    /\ spark' = "active"
    /\ pc' = "check"
    /\ UNCHANGED <<input, stop_calls, df, views, shown, saved, error, outcome, sample, gen>>

\* if not os.path.exists(input_path): raise FileNotFoundError
CheckInput ==
    /\ pc = "check"
    /\ IF file_exists
         THEN pc' = "read" /\ error' = error
         ELSE pc' = "except" /\ error' = "FileNotFoundError"
    /\ UNCHANGED <<input, spark, stop_calls, df, views, shown, saved, outcome, sample, gen>>

\* Mutant: the loaded table is not checked for rows.
ReadDataUnchecked ==
    /\ pc = "read"
    /\ df' = file_rows
    /\ pc' = "avg"
    /\ UNCHANGED <<input, spark, stop_calls, views, shown, saved, error, outcome, sample, gen>>

\* df = spark.read.csv(...); if df.count() == 0: raise ValueError; df.cache()
ReadData ==
    /\ pc = "read"
    /\ df' = file_rows
    /\ IF Count(file_rows) = 0
         THEN pc' = "except" /\ error' = "ValueError"
         ELSE pc' = "avg" /\ error' = error
    /\ UNCHANGED <<input, spark, stop_calls, views, shown, saved, outcome, sample, gen>>

AvgTxn ==
    /\ pc = "avg"
    /\ avg_txn' = AvgTransactionPerUser(df)
    /\ built' = built \cup {"avg_txn"}
    /\ pc' = "failure"
    /\ UNCHANGED <<input, spark, stop_calls, df, failure_rate, top_merchants, shown, saved, error, outcome, sample, gen>>

FailureRate ==
    /\ pc = "failure"
    /\ failure_rate' = FailureRatePerMerchant(df)
    /\ built' = built \cup {"failure_rate"}
    /\ pc' = "top"
    /\ UNCHANGED <<input, spark, stop_calls, df, avg_txn, top_merchants, shown, saved, error, outcome, sample, gen>>

TopMerchants ==
    /\ pc = "top"
    /\ top_merchants' \in TopMerchantsResults(df)
    /\ built' = built \cup {"top_merchants"}
    /\ pc' = "show_top"
    /\ UNCHANGED <<input, spark, stop_calls, df, avg_txn, failure_rate, shown, saved, error, outcome, sample, gen>>

Show(at, view, next) ==
    /\ pc = at
    /\ shown' = Append(shown, view)
    /\ pc' = next
    /\ UNCHANGED <<input, spark, stop_calls, df, views, saved, error, outcome, sample, gen>>

\* top_merchants.show()
ShowTopMerchants == Show("show_top", "top_merchants", "show_avg")
\* avg_txn.orderBy(desc).limit(10).show()
ShowAvgTxn == Show("show_avg", "avg_txn", "show_failure")
\* failure_rate.orderBy(desc).limit(10).show()
ShowFailureRate == Show("show_failure", "failure_rate", "makedirs")

\* A step between the load and the save phase raises (a Spark error).
StepPcs == {"read", "avg", "failure", "top", "show_top", "show_avg", "show_failure"}

StepRaises ==
    /\ pc \in StepPcs
    /\ error' = "UnexpectedError"
    /\ pc' = "except"
    /\ UNCHANGED <<input, spark, stop_calls, df, views, shown, saved, outcome, sample, gen>>

\* os.makedirs(results_dir, exist_ok=True)
MakeResultsDir ==
    /\ pc = "makedirs"
    /\ dir_created' = TRUE
    /\ pc' = AVG_CSV
    /\ UNCHANGED <<input, spark, stop_calls, df, views, shown, attempted, results, save_failed_at, error, outcome, sample, gen>>

\* view.toPandas().to_csv(path): the view is evaluated again and written.
Save(name, content, next) ==
    /\ pc = name
    /\ attempted' = attempted \cup {name}
    /\ results' = (name :> content) @@ results
    /\ pc' = next
    /\ UNCHANGED <<input, spark, stop_calls, df, views, shown, dir_created, save_failed_at, error, outcome, sample, gen>>

SaveAvgTxn == Save(AVG_CSV, AvgTransactionPerUser(df), FAILURE_CSV)
SaveFailureRate == Save(FAILURE_CSV, FailureRatePerMerchant(df), TOP_CSV)
SaveTopMerchants == \E t \in TopMerchantsResults(df) : Save(TOP_CSV, t, "summary")

\* The success report and the summary statistics.
Summary ==
    /\ pc = "summary"
    /\ pc' = "finally"
    /\ UNCHANGED <<input, spark, stop_calls, df, views, shown, saved, error, outcome, sample, gen>>

\* A step of the save phase raises; the inner handler reports it.
SavePcs == {"makedirs", AVG_CSV, FAILURE_CSV, TOP_CSV, "summary"}

\* Mutant: a handler around each save step; the next step still runs.
NextSaveStep(at) ==
    CASE at = "makedirs" -> AVG_CSV
      [] at = AVG_CSV -> FAILURE_CSV
      [] at = FAILURE_CSV -> TOP_CSV
      [] at = TOP_CSV -> "summary"
      [] at = "summary" -> "finally"

SaveFailsIsolated ==
    /\ pc \in SavePcs
    /\ save_failed_at' = pc
    /\ \E called \in BOOLEAN :
          attempted' = IF called /\ pc \in OutputFiles THEN attempted \cup {pc} ELSE attempted
    /\ pc' = NextSaveStep(pc)
    /\ UNCHANGED <<input, spark, stop_calls, df, views, shown, dir_created, results, error, outcome, sample, gen>>

\* Mutant: no handler around the save phase; the outer handler re-raises.
SaveFailsPropagates ==
    /\ pc \in SavePcs
    /\ save_failed_at' = pc
    /\ error' = "SaveError"
    /\ pc' = "except"
    /\ UNCHANGED <<input, spark, stop_calls, df, views, shown, dir_created, attempted, results, outcome, sample, gen>>

SaveFails ==
    /\ pc \in SavePcs
    /\ save_failed_at' = pc
    \* toPandas() may raise before to_csv is called, or to_csv itself raises
    /\ \E called \in BOOLEAN :
          attempted' = IF called /\ pc \in OutputFiles THEN attempted \cup {pc} ELSE attempted
    /\ pc' = "finally"
    /\ UNCHANGED <<input, spark, stop_calls, df, views, shown, dir_created, results, error, outcome, sample, gen>>

\* Mutant: spark.stop() ends the try block instead of a finally clause, so
\* the re-raise leaves main() without it.
ExceptHandlerNoFinally ==
    /\ pc = "except"
    /\ outcome' = "raised"
    /\ pc' = "exited"
    /\ UNCHANGED <<input, spark, stop_calls, df, views, shown, saved, error, sample, gen>>

\* except Exception as e: print(...); raise
ExceptHandler ==
    /\ pc = "except"
    /\ outcome' = "raising"
    /\ pc' = "finally"
    /\ UNCHANGED <<input, spark, stop_calls, df, views, shown, saved, error, sample, gen>>

\* finally: spark.stop()
Finally ==
    /\ pc = "finally"
    /\ spark' = "stopped"
    /\ stop_calls' = stop_calls + 1
    /\ outcome' = IF outcome = "raising" THEN "raised" ELSE "returned"
    /\ pc' = "exited"
    /\ UNCHANGED <<input, df, views, shown, saved, error, sample, gen>>

Compute == AvgTxn \/ FailureRate \/ TopMerchants
Display == ShowTopMerchants \/ ShowAvgTxn \/ ShowFailureRate
Persist == MakeResultsDir \/ SaveAvgTxn \/ SaveFailureRate \/ SaveTopMerchants \/ Summary

\* ------------------------------- generate_sample_data.generate_sample_transactions
\* The rows the sample generator can draw: no field of them is empty.
GeneratedRows == { Row("U1", "M1", "50", s) : s \in statuses }

\* The record counts a caller asks for.
Requests == -1..MaxGen

\* with open(output_file, 'w') ...: writer.writerow(header).  The file is
\* created or truncated before the loop looks at num_records.
SampleOpen ==
    /\ s_pc = "idle" /\ pc = "idle" /\ g_pc = "idle"
    /\ \E n \in Requests : s_n' = n
    /\ s_i' = 0
    /\ s_outcome' = "none"
    /\ file_exists' = TRUE
    /\ file_rows' = EmptyBag
    /\ s_pc' = "writing"
    /\ UNCHANGED <<analyzer, gen>>

\* for i in range(num_records): writer.writerow([...])
SampleWriteRow ==
    /\ s_pc = "writing" /\ s_i < s_n
    /\ \E r \in GeneratedRows : file_rows' = file_rows (+) SetToBag({r})
    /\ s_i' = s_i + 1
    /\ UNCHANGED <<file_exists, analyzer, s_pc, s_n, s_outcome, gen>>

\* range(num_records) is exhausted (at once when num_records <= 0): the file
\* is closed and the success message printed.
SampleClose ==
    /\ s_pc = "writing" /\ ~(s_i < s_n)
    /\ s_outcome' = "ok"
    /\ s_pc' = "idle"
    /\ UNCHANGED <<input, analyzer, s_n, s_i, gen>>

\* --------------------------------------------------- transaction_generator
CSV_OUT == "transactions.csv"
JSON_OUT == "transactions.json"

\* The values uuid.uuid4() can return.
Uuids == 1..NumUuids

\* main(): the banner, then validate_input() prompts.
GenMain ==
    /\ g_pc = "idle" /\ s_pc = "idle"
    /\ g_pc' = "prompt"
    /\ g_outcome' = "none"
    /\ rejected' = {}
    /\ UNCHANGED <<input, analyzer, sample, used_transaction_ids, transactions,
                   produced, collided, g_entry, g_n, opened>>

\* validate_input(): one pass of its loop.  A count <= 0 is turned down and
\* the prompt repeats; a positive one is returned to main(), which makes a
\* new TransactionGenerator and calls generate_transactions(n).
validate_input ==
    /\ g_pc = "prompt"
    /\ \E n \in Requests :
          IF n <= 0
            THEN /\ rejected' = rejected \cup {n}
                 /\ UNCHANGED <<used_transaction_ids, transactions, produced,
                                collided, g_pc, g_entry, g_n>>
            ELSE /\ n <= NumUuids
                 /\ used_transaction_ids' = {}
                 /\ produced' = <<>>
                 /\ collided' = FALSE
                 /\ transactions' = <<>>
                 /\ g_n' = n
                 /\ g_entry' = "main"
                 /\ g_pc' = "loop"
                 /\ UNCHANGED rejected
    /\ UNCHANGED <<input, analyzer, sample, opened, g_outcome>>

\* TransactionGenerator.generate_transactions(n), called on the generator
\* there is: transactions = [].  A call is made only while the identifier
\* space has room for its records.
generate_transactions ==
    /\ g_pc = "idle" /\ s_pc = "idle"
    /\ \E n \in Requests :
          /\ Len(produced) + n <= NumUuids
          /\ g_n' = n
    /\ transactions' = <<>>
    /\ g_entry' = "api"
    /\ g_outcome' = "none"
    /\ g_pc' = "loop"
    /\ UNCHANGED <<input, analyzer, sample, used_transaction_ids, produced,
                   collided, rejected, opened>>

\* Mutant: the identifier drawn is issued without looking it up.
generate_transaction_unchecked ==
    /\ g_pc = "loop" /\ Len(transactions) < g_n
    /\ \E transaction_id \in Uuids :
          LET transaction == [transaction_id |-> transaction_id]
          IN  /\ used_transaction_ids' = used_transaction_ids \cup {transaction_id}
              /\ transactions' = Append(transactions, transaction)
              /\ produced' = Append(produced, transaction)
              /\ UNCHANGED collided
    /\ UNCHANGED <<input, analyzer, sample, g_pc, g_entry, g_n, rejected, opened, g_outcome>>

\* One pass of the loop of generate_unique_transaction_id(): uuid4() is drawn
\* again when it is in used_transaction_ids; otherwise it is added, and
\* generate_transaction() builds the record, which the loop of
\* generate_transactions appends.  The other fields of a record are drawn
\* independently of the identifier and are left out.
generate_transaction ==
    /\ g_pc = "loop" /\ Len(transactions) < g_n
    /\ \E transaction_id \in Uuids :
          IF transaction_id \in used_transaction_ids
            THEN /\ collided' = TRUE
                 /\ UNCHANGED <<used_transaction_ids, transactions, produced>>
            ELSE LET transaction == [transaction_id |-> transaction_id]
                 IN  /\ used_transaction_ids' = used_transaction_ids \cup {transaction_id}
                     /\ transactions' = Append(transactions, transaction)
                     /\ produced' = Append(produced, transaction)
                     /\ UNCHANGED collided
    /\ UNCHANGED <<input, analyzer, sample, g_pc, g_entry, g_n, rejected, opened, g_outcome>>

\* for i in range(n) is exhausted (at once when n <= 0): return transactions.
\* main() returns when the list is empty and saves it otherwise.
return_transactions ==
    /\ g_pc = "loop" /\ ~(Len(transactions) < g_n)
    /\ IF g_entry = "api"
         THEN g_pc' = "idle" /\ g_outcome' = "returned"
         ELSE IF transactions = <<>>
                THEN g_pc' = "idle" /\ g_outcome' = "no_transactions"
                ELSE g_pc' = "save_csv" /\ g_outcome' = g_outcome
    /\ UNCHANGED <<input, analyzer, sample, used_transaction_ids, transactions,
                   produced, collided, g_entry, g_n, rejected, opened>>

\* save_to_csv / save_to_json from main(): ensure_directory_exists may
\* raise before the file is opened, the write may raise after; main()
\* reports either and calls sys.exit(1).
SaveTo(at, name, next) ==
    /\ g_pc = at
    /\ \E fault \in {"none", "makedirs", "write"} :
          /\ opened' = IF fault = "makedirs" THEN opened ELSE opened \cup {name}
          /\ IF fault = "none"
               THEN g_pc' = next /\ g_outcome' = g_outcome
               ELSE g_pc' = "idle" /\ g_outcome' = "exit1"
    /\ UNCHANGED <<input, analyzer, sample, used_transaction_ids, transactions,
                   produced, collided, g_entry, g_n, rejected>>

save_to_csv == SaveTo("save_csv", CSV_OUT, "save_json")
save_to_json == SaveTo("save_json", JSON_OUT, "summary")

\* The summary; main() returns.
GenSummary ==
    /\ g_pc = "summary"
    /\ g_pc' = "idle"
    /\ g_outcome' = "exit0"
    /\ UNCHANGED <<input, analyzer, sample, used_transaction_ids, transactions,
                   produced, collided, g_entry, g_n, rejected, opened>>

NextGen ==
    \/ SampleOpen \/ SampleWriteRow \/ SampleClose
    \/ GenMain \/ validate_input \/ generate_transactions \/ generate_transaction
    \/ return_transactions \/ save_to_csv \/ save_to_json \/ GenSummary

SpecGen == Init /\ [][NextGen]_vars

\* What runs once the session exists.
Run ==
    \/ CheckInput \/ ReadData
    \/ Compute \/ Display \/ Persist
    \/ StepRaises \/ SaveFails \/ ExceptHandler \/ Finally

Main == CreateSession \/ Run

Next == CreateFile \/ WriteRow(SampleRows, MaxRows) \/ Main

Spec == Init /\ [][Next]_vars

\* main() is one thread that runs to completion: once the session exists
\* some step of it is always taken.
SpecFair == Spec /\ WF_vars(Run)

\* The load and the per-user and per-merchant views, over the inputs of
\* ViewRows.
NextViews ==
    \/ CreateFile \/ WriteRow(ViewRows, MaxRows)
    \/ CreateSession \/ CheckInput \/ ReadData \/ AvgTxn \/ FailureRate

SpecViews == Init /\ [][NextViews]_vars

\* The load and the three views, over the inputs of TopRows.
NextTop ==
    \/ CreateFile \/ WriteRow(TopRows, MaxTopRows)
    \/ CreateSession \/ CheckInput \/ ReadData \/ Compute

SpecTop == Init /\ [][NextTop]_vars

\* ------------------------------------------------------------------ claims
\* Rows of df with merchant_id m, and those of them with status FAILED,
\* counted row by row.
RowsOfMerchant(m) ==
    SumOver({r \in DOMAIN df : r.merchant_id = m}, df)
FailedRowsOfMerchant(m) ==
    SumOver({r \in DOMAIN df : r.merchant_id = m /\ r.status = "FAILED"}, df)
MerchantsOfDf == {r.merchant_id : r \in DOMAIN df} \ {NULL}

\* C1: in the failure-rate view, for every merchant: failed_txns <=
\* total_txns, 0 <= failure_rate <= 1, failure_rate = 0 whenever
\* failed_txns = 0, and a merchant with no FAILED row has failed_txns = 0.
FailureRateBounded ==
    "failure_rate" \in built =>
        \A m \in failure_rate :
            /\ m.failed_txns >= 0
            /\ m.failed_txns <= m.total_txns
            /\ m.failure_rate[2] > 0
            /\ 0 <= m.failure_rate[1]
            /\ m.failure_rate[1] <= m.failure_rate[2]
            /\ (m.failed_txns = 0 => m.failure_rate[1] = 0)
            /\ (FailedRowsOfMerchant(m.merchant_id) = 0 => m.failed_txns = 0)

\* A merchant with rows and no FAILED row beside one that failed some, not
\* all, of its transactions.
FailureRateWitness ==
    /\ "failure_rate" \in built
    /\ \E m \in failure_rate : m.failed_txns = 0 /\ m.failure_rate = <<0, 1>>
    /\ \E m \in failure_rate : 0 < m.failed_txns /\ m.failed_txns < m.total_txns

\* C2: the top-merchants view has min(5, distinct non-null merchant_id)
\* rows, in non-increasing order of txn_count, each txn_count is the number
\* of input rows of that merchant, and no merchant left out has a strictly
\* larger count than one in the view.
TopMerchantsCorrect ==
    "top_merchants" \in built =>
        LET n == Cardinality(MerchantsOfDf)
            inView == {top_merchants[i].merchant_id : i \in 1..Len(top_merchants)}
        IN  /\ Len(top_merchants) = IF n < 5 THEN n ELSE 5
            /\ Cardinality(inView) = Len(top_merchants)
            /\ inView \subseteq MerchantsOfDf
            /\ \A i \in 1..Len(top_merchants) :
                  top_merchants[i].txn_count = RowsOfMerchant(top_merchants[i].merchant_id)
            /\ \A i \in 1..(Len(top_merchants) - 1) :
                  top_merchants[i].txn_count >= top_merchants[i + 1].txn_count
            /\ \A m \in MerchantsOfDf \ inView : \A i \in 1..Len(top_merchants) :
                  RowsOfMerchant(m) <= top_merchants[i].txn_count

\* Six merchants, five kept, the busiest first and one left out.
TopMerchantsWitness ==
    /\ "top_merchants" \in built
    /\ Cardinality(MerchantsOfDf) = 6
    /\ Len(top_merchants) = 5
    /\ top_merchants[1].txn_count > top_merchants[5].txn_count

\* C3: a row whose user_id or transaction_amount is null is invisible to the
\* average-transaction view: the view equals the view of the input without
\* that row (the rest being non-empty), and no group has a null user_id.
NullRow(r) == r.user_id = NULL \/ r.transaction_amount = NULL

AvgTxnIgnoresNullRows ==
    "avg_txn" \in built =>
        /\ \A g \in avg_txn : g.user_id # NULL
        /\ \A r \in DOMAIN df :
              NullRow(r) /\ Count(df) > 1 =>
                  avg_txn = AvgTransactionPerUser(df (-) SetToBag({r}))

\* A user with two rows of different amounts beside a row without user_id.
AvgTxnWitness ==
    /\ "avg_txn" \in built
    /\ \E r \in DOMAIN df : r.user_id = NULL /\ r.transaction_amount # NULL
    /\ [user_id |-> "U1", avg_transaction |-> <<75, 1>>] \in avg_txn

\* C4: the total_txns of the failure-rate view add up to the number of input
\* rows with a merchant_id; rows without one are in no group of the view.
GroupSizesSum ==
    "failure_rate" \in built =>
        /\ SumOver(failure_rate, [m \in failure_rate |-> m.total_txns])
             = SumOver({r \in DOMAIN df : r.merchant_id # NULL}, df)
        /\ \A m \in failure_rate : m.merchant_id # NULL

\* Rows without merchant_id, one of them FAILED, beside rows of a merchant.
GroupSizesWitness ==
    /\ "failure_rate" \in built
    /\ \E r \in DOMAIN df : r.merchant_id = NULL /\ r.status = "FAILED" /\ r.user_id # NULL
    /\ \E m \in failure_rate : m.total_txns = 2

\* C5: an existing input file with no data row makes main() fail with the
\* empty-dataset error (ValueError), re-raised to the caller; no view is
\* displayed, the results directory is not created, no output file written.
EmptyInputFails ==
    /\ error = "ValueError" =>
          /\ Count(df) = 0
          /\ shown = <<>> /\ built = {}
          /\ ~dir_created /\ attempted = {} /\ DOMAIN results = {}
    /\ (pc = "exited" /\ file_exists /\ Count(file_rows) = 0
          /\ error # "UnexpectedError") =>
          error = "ValueError" /\ outcome = "raised"

EmptyInputWitness ==
    /\ pc = "exited" /\ file_exists /\ Count(file_rows) = 0
    /\ error = "ValueError" /\ outcome = "raised"

\* The output files the save phase writes before it reaches f.
FilesBefore(f) ==
    CASE f = AVG_CSV -> {}
      [] f = FAILURE_CSV -> {AVG_CSV}
      [] f = TOP_CSV -> {AVG_CSV, FAILURE_CSV}

\* C6 as stated: when saving one output file fails, the writes of the other
\* two are still attempted.
SaveIsolatedPerFile ==
    (pc = "exited" /\ save_failed_at \in OutputFiles) =>
        OutputFiles \ {save_failed_at} \subseteq attempted

\* C6 amended: one handler covers the whole save phase.  When saving one
\* output file fails, the files before it (in the order avg_transaction,
\* failure_rate, top_5) are written and stay, and no later file is
\* attempted.
SaveStopsAtFailure ==
    save_failed_at \in OutputFiles =>
        /\ attempted \ {save_failed_at} = FilesBefore(save_failed_at)
        /\ DOMAIN results = FilesBefore(save_failed_at)

SaveStopsWitness ==
    /\ pc = "exited" /\ save_failed_at = FAILURE_CSV
    /\ DOMAIN results = {AVG_CSV}
    /\ attempted = {AVG_CSV, FAILURE_CSV}

\* C7: a failure in the save phase is reported and does not fail the
\* analysis: the three views were displayed, top merchants, users by
\* average, merchants by failure rate, before the save phase began, and
\* main() returns normally.
SaveFailureContained ==
    /\ (pc \in SavePcs \/ dir_created \/ save_failed_at # "none") =>
          shown = <<"top_merchants", "avg_txn", "failure_rate">>
    /\ save_failed_at # "none" =>
          /\ error = "none"
          /\ outcome \in {"running", "returned"}
          /\ (pc = "exited" => outcome = "returned")

SaveFailureWitness ==
    /\ pc = "exited" /\ save_failed_at = "makedirs"
    /\ outcome = "returned" /\ ~dir_created

\* C10: once the session exists, every run of main() reaches its exit
\* having called spark.stop() exactly once, and an error other than a save
\* failure is re-raised after the release.
SessionReleased ==
    /\ [](stop_calls <= 1 /\ (spark = "active" => stop_calls = 0))
    /\ [](pc = "exited" =>
            /\ spark = "stopped" /\ stop_calls = 1
            /\ outcome = IF error = "none" THEN "returned" ELSE "raised")
    /\ (spark = "active" ~> pc = "exited")

\* An aggregation step raised after the load, and the session is stopped.
SessionReleasedWitness ==
    /\ pc = "exited" /\ error = "UnexpectedError" /\ Count(df) > 0
    /\ "avg_txn" \in built
    /\ spark = "stopped" /\ outcome = "raised"

\* C8 as stated: a request for 0 or fewer records opens no output file and
\* ends in an error, at every entry point of the generators.
NonPositiveCountRejected ==
    /\ s_n <= 0 => s_pc # "writing" /\ s_outcome # "ok"
    /\ (g_n <= 0 /\ g_pc = "idle") => g_outcome \notin {"returned", "no_transactions", "exit0"}
    /\ (g_n <= 0 /\ g_pc # "idle") => opened = {}

\* C9: the records one TransactionGenerator has produced carry pairwise
\* distinct transaction_id values, and used_transaction_ids is exactly the
\* set of identifiers issued.
ProducedIds == {produced[i].transaction_id : i \in 1..Len(produced)}

UniqueTransactionIds ==
    /\ \A i, j \in 1..Len(produced) :
          produced[i].transaction_id = produced[j].transaction_id => i = j
    /\ Cardinality(ProducedIds) = Len(produced)
    /\ used_transaction_ids = ProducedIds

\* Three records over two calls, after uuid4() returned a used identifier.
UniqueIdsWitness ==
    /\ collided /\ g_pc = "idle" /\ g_entry = "api"
    /\ Len(produced) = 3 /\ Len(transactions) < 3
    /\ Cardinality(ProducedIds) = 3

====
